---- MODULE Spec2Model ----
(***************************************************************************)
(* A model of src/src/retry.decorator.ts: the retry handler built by       *)
(* createRetryHandler (retryAsync, sleepWithAbort, canRetry,               *)
(* setExponentialBackOffPolicyDefault), the AbortSignal it observes and    *)
(* the timers it creates.                                                  *)
(*                                                                         *)
(* JavaScript runs every callback to completion, so one action of the      *)
(* model is one such run: from the point where retryAsync is resumed (the  *)
(* call itself, the settling of the awaited operation, the firing of the   *)
(* sleep timer, the rejection of the sleep) to the next await or to the    *)
(* settling of the promise retryAsync returned. controller.abort() is a    *)
(* run of the caller: it rejects the sleeps and resumes no call.           *)
(***************************************************************************)
EXTENDS Integers, Sequences, FiniteSets, TLC

VARIABLES
    options,    \* handler -> the RetryOptions object the handler closes over
    supplied,   \* handler -> the RetryOptions object as the caller wrote it
    handlerOf,  \* call -> the handler (withRetry / Retryable result) it runs on
    calls,      \* the calls of the wrapped function made in this run
    input,      \* call -> the receiver (this) and the arguments of the call
    aborted,    \* token -> AbortSignal.aborted
    listeners,  \* token -> the 'abort' listeners subscribed, as <<call, sleep>>
    timers,     \* pending setTimeout timers, as <<kind, call, sleep>>
    frame       \* call -> the activation of retryAsync (locals, outcome, history)

vars == <<options, supplied, handlerOf, calls, input, aborted, listeners, timers, frame>>

----------------------------------------------------------------------------
\* Bounds of the model.

\* The largest maxAttempts a caller configures.
MaxAttemptsBound == 2

----------------------------------------------------------------------------
\* Optional values: a property that is absent (undefined) is None.

None == <<>>
Some(x) == <<x>>
IsDefined(x) == x # None
Get(x) == x[1]

CallIds == {"c1", "c2"}
HandlerIds == {"h1", "h2"}
TokenIds == {"t1", "t2"}

\* enum BackOffPolicy
FixedBackOffPolicy == "FixedBackOffPolicy"
ExponentialBackOffPolicy == "ExponentialBackOffPolicy"

\* Defaults of setExponentialBackOffPolicyDefault.
DefaultBackOff == 1000
DefaultMaxInterval == 2000
DefaultMultiplier == 2

----------------------------------------------------------------------------
\* What the wrapped operation can do: return (resolve with) a value, or throw
\* (reject with) an error. An error has a class and a message.

Values == {"fulfilled", "success"}

Err429 == [kind |-> "Error", message |-> "Error: 429"]
ErrSyntax == [kind |-> "SyntaxError", message |-> "I failed!"]
Errors == {Err429, ErrSyntax}

\* The prototype chain of the built-in error classes: the constructors c for
\* which (new kind()) instanceof c.
PrototypeChain(kind) ==
    IF kind = "Error" THEN {"Error"} ELSE {kind, "Error"}

InstanceOf(e, errorType) == errorType \in PrototypeChain(e.kind)

\* The doRetry predicates callers configure, by name.
DoRetry(name, e) ==
    CASE name = "is429" -> e.message = "Error: 429"
      [] name = "always" -> TRUE
      [] name = "never" -> FALSE

----------------------------------------------------------------------------
\* The errors the handler itself creates.

AbortErrorMessage == "Retry operation aborted"

AbortError(message) ==
    [type |-> "AbortError", message |-> message, code |-> "ABORT_ERR"]

\* Mutant: retryCount counts the invocations, not the retries.
MaxAttemptsErrorCountsInvocations(originalError, retryCount) ==
    [type |-> "MaxAttemptsError", originalError |-> originalError,
     retryCount |-> retryCount + 1, code |-> "429"]

MaxAttemptsError(originalError, retryCount) ==
    [type |-> "MaxAttemptsError", originalError |-> originalError,
     retryCount |-> retryCount, code |-> "429"]

\* How a call of retryAsync ends: the promise is fulfilled with a value the
\* operation returned, fulfilled with undefined (the loop ran off its end),
\* or rejected with AbortError, MaxAttemptsError or the operation's error.
Pending == [type |-> "pending"]
Returned(v) == [type |-> "value", value |-> v]
ReturnedUndefined == [type |-> "undefined"]
Thrown(e) == [type |-> "thrown", error |-> e]

----------------------------------------------------------------------------
\* createRetryHandler: the options object after construction.

Truthy(n) == IsDefined(n) /\ Get(n) # 0

\* Mutant: the spreads in the other order, the defaults over the caller's.
MergeExponentialOptionDefaultsWin(eo) ==
    [maxInterval |-> Some(DefaultMaxInterval), multiplier |-> Some(DefaultMultiplier)]

\* { ...{ maxInterval: 2000, multiplier: 2 }, ...opts.exponentialOption }
MergeExponentialOption(eo) ==
    [maxInterval |-> IF IsDefined(eo) /\ IsDefined(Get(eo).maxInterval)
                     THEN Get(eo).maxInterval ELSE Some(DefaultMaxInterval),
     multiplier  |-> IF IsDefined(eo) /\ IsDefined(Get(eo).multiplier)
                     THEN Get(eo).multiplier ELSE Some(DefaultMultiplier)]

setExponentialBackOffPolicyDefault(opts) ==
    [opts EXCEPT
        !.backOff = IF ~Truthy(opts.backOff) THEN Some(DefaultBackOff) ELSE @,
        !.exponentialOption = Some(MergeExponentialOption(@))]

createRetryHandler(opts) ==
    IF opts.backOffPolicy = Some(ExponentialBackOffPolicy)
    THEN setExponentialBackOffPolicyDefault(opts)
    ELSE opts

----------------------------------------------------------------------------
\* Helpers of retryAsync.

OptionsOf(c) == options[handlerOf[c]]

\* Mutant: the handler never looks at the signal.
SignalNeverAborted(o) == FALSE

\* Mutant: options.signal tested in place of options.signal?.aborted.
SignalPresent(o) == IsDefined(o.signal)

\* options.signal?.aborted
SignalAborted(o) == IsDefined(o.signal) /\ aborted[Get(o.signal)]

\* Mutant: every error is retried.
canRetryAlways(o, e) == TRUE

\* Mutant: an error whose class is in the type filter is retried without
\* asking the predicate.
canRetryFilterFirst(o, e) ==
    IF IsDefined(o.value) /\ Len(Get(o.value)) # 0
    THEN \E n \in 1..Len(Get(o.value)) : InstanceOf(e, Get(o.value)[n])
    ELSE ~(IsDefined(o.doRetry) /\ ~DoRetry(Get(o.doRetry), e))

\* canRetry(e)
canRetry(o, e) ==
    IF IsDefined(o.doRetry) /\ ~DoRetry(Get(o.doRetry), e)
    THEN FALSE
    ELSE IF IsDefined(o.value) /\ Len(Get(o.value)) # 0
            /\ ~(\E n \in 1..Len(Get(o.value)) : InstanceOf(e, Get(o.value)[n]))
         THEN FALSE
         ELSE TRUE

\* Mutant: maxAttempts taken as the number of invocations.
LoopConditionOffByOne(o, i) == i < o.maxAttempts

\* i < (options.maxAttempts + 1)
LoopCondition(o, i) == i < o.maxAttempts + 1

\* i == options.maxAttempts
IsLastAttempt(o, i) == i = o.maxAttempts

RECURSIVE Pow(_, _)
Pow(b, n) == IF n = 0 THEN 1 ELSE b * Pow(b, n - 1)

Min(a, b) == IF a < b THEN a ELSE b

\* Mutant: the delay grows whatever the policy is.
NextBackOffAlwaysGrows(o, backOff, i) ==
    IF IsDefined(backOff) THEN Some(Get(backOff) * DefaultMultiplier) ELSE backOff

\* The value of the local backOff after the catch block of attempt i.
NextBackOff(o, backOff, i) ==
    IF o.backOffPolicy = Some(ExponentialBackOffPolicy)
    THEN Some(Min((IF IsDefined(backOff) THEN Get(backOff) ELSE 0)
                      * Pow(Get(Get(o.exponentialOption).multiplier), i),
                  Get(Get(o.exponentialOption).maxInterval)))
    ELSE backOff

\* The activation of a call that has not been made yet.
NewFrame ==
    [pc |-> "idle", i |-> 0, backOff |-> None, invocations |-> 0,
     context |-> None, args |-> None, applied |-> <<>>,
     canRetryCalls |-> 0, doRetryCalls |-> 0,
     attempts |-> <<>>, waits |-> <<>>, sleeps |-> 0, outcome |-> Pending]

\* Mutant: the wrapper is an arrow function and the operation is called
\* without its receiver.
ApplyWithoutReceiver(f) ==
    [f EXCEPT !.pc = "attempting", !.invocations = @ + 1,
              !.applied = Append(@, [context |-> Some("undefined"), args |-> f.args])]

\* fn.apply(context, args): the operation is invoked with the receiver and
\* the arguments retryAsync was called with.
Apply(f) ==
    [f EXCEPT !.pc = "attempting", !.invocations = @ + 1,
              !.applied = Append(@, [context |-> f.context, args |-> f.args])]

\* canRetry(e) was called for the failure: it calls options.doRetry when
\* there is one.
Classified(o, f) ==
    [f EXCEPT !.canRetryCalls = @ + 1,
              !.doRetryCalls = IF IsDefined(o.doRetry) THEN @ + 1 ELSE @]

Settle(f, out) == [f EXCEPT !.pc = "done", !.outcome = out]

\* Mutant: no abort check before the attempt.
LoopIterationNoAbortCheck(o, f) ==
    IF LoopCondition(o, f.i)
    THEN Apply(f)
    ELSE Settle(f, ReturnedUndefined)

\* One pass through the head of the for loop with the locals of f: the loop
\* test, the abort check before the attempt, and fn.apply(context, args).
LoopIteration(o, f) ==
    IF LoopCondition(o, f.i)
    THEN IF SignalAborted(o)
         THEN Settle(f, AbortError(AbortErrorMessage))
         ELSE Apply(f)
    ELSE Settle(f, ReturnedUndefined)

\* Mutant: the attempt index is not advanced.
AfterWaitKeepsIndex(o, f) ==
    LoopIteration(o, [f EXCEPT !.backOff = NextBackOff(o, f.backOff, f.i)])

\* The end of the catch block once the wait (if any) is over: the update of
\* the local backOff, i++, and the next pass through the loop head.
AfterWait(o, f) ==
    LoopIteration(o, [f EXCEPT !.backOff = NextBackOff(o, f.backOff, f.i),
                               !.i = @ + 1])

Failed(f, e) == [f EXCEPT !.attempts = Append(@, [ok |-> FALSE, error |-> e, index |-> f.i])]
Succeeded(f, v) == [f EXCEPT !.attempts = Append(@, [ok |-> TRUE, value |-> v, index |-> f.i])]

----------------------------------------------------------------------------
\* The actions.

\* Mutant: the first attempt is made without a look at the signal.
ExecuteWithoutAbortCheck(c) ==
    /\ c \in calls
    /\ frame[c].pc = "idle"
    /\ frame' = [frame EXCEPT ![c] =
                    Apply([@ EXCEPT !.backOff = OptionsOf(c).backOff, !.i = 0,
                                    !.context = Some(input[c].context),
                                    !.args = Some(input[c].args)])]
    /\ UNCHANGED <<options, supplied, handlerOf, calls, input, aborted, listeners, timers>>

\* Mutant: a delay that is not set is taken to be the default delay under
\* every policy.
ExecuteDefaultsBackOff(c) ==
    /\ c \in calls
    /\ frame[c].pc = "idle"
    /\ frame' = [frame EXCEPT ![c] =
                    LoopIteration(OptionsOf(c),
                                  [@ EXCEPT !.backOff = IF Truthy(OptionsOf(c).backOff)
                                                        THEN OptionsOf(c).backOff
                                                        ELSE Some(DefaultBackOff),
                                            !.i = 0,
                                            !.context = Some(input[c].context),
                                            !.args = Some(input[c].args)])]
    /\ UNCHANGED <<options, supplied, handlerOf, calls, input, aborted, listeners, timers>>

\* Mutant: the running delay is a variable of the handler, not of the call:
\* a call starts with the delay another call of the handler has reached.
ExecuteSharedBackOff(c) ==
    /\ c \in calls
    /\ frame[c].pc = "idle"
    /\ LET others == {d \in calls \ {c} : handlerOf[d] = handlerOf[c] /\ frame[d].pc # "idle"}
           start == IF others = {} THEN OptionsOf(c).backOff
                    ELSE frame[CHOOSE d \in others : TRUE].backOff
       IN frame' = [frame EXCEPT ![c] =
                       LoopIteration(OptionsOf(c),
                                     [@ EXCEPT !.backOff = start, !.i = 0,
                                               !.context = Some(input[c].context),
                                               !.args = Some(input[c].args)])]
    /\ UNCHANGED <<options, supplied, handlerOf, calls, input, aborted, listeners, timers>>

\* The caller calls the wrapped function: retryAsync runs to its first await.
Execute(c) ==
    /\ c \in calls
    /\ frame[c].pc = "idle"
    /\ frame' = [frame EXCEPT ![c] =
                    LoopIteration(OptionsOf(c),
                                  [@ EXCEPT !.backOff = OptionsOf(c).backOff, !.i = 0,
                                            !.context = Some(input[c].context),
                                            !.args = Some(input[c].args)])]
    /\ UNCHANGED <<options, supplied, handlerOf, calls, input, aborted, listeners, timers>>

\* Mutant: the signal is tested once more after the await of the operation.
FnResolveChecksAbort(c, v) ==
    /\ frame[c].pc = "attempting"
    /\ frame' = [frame EXCEPT ![c] =
                    IF SignalAborted(OptionsOf(c))
                    THEN Settle(Succeeded(@, v), AbortError(AbortErrorMessage))
                    ELSE Settle(Succeeded(@, v), Returned(v))]
    /\ UNCHANGED <<options, supplied, handlerOf, calls, input, aborted, listeners, timers>>

\* Mutant: the value is awaited but not returned, and the loop goes on.
FnResolveKeepsLooping(c, v) ==
    /\ frame[c].pc = "attempting"
    /\ frame' = [frame EXCEPT ![c] =
                    LoopIteration(OptionsOf(c), [Succeeded(@, v) EXCEPT !.i = @ + 1])]
    /\ UNCHANGED <<options, supplied, handlerOf, calls, input, aborted, listeners, timers>>

\* The awaited operation returns v: return await fn.apply(context, args).
FnResolve(c, v) ==
    /\ frame[c].pc = "attempting"
    /\ frame' = [frame EXCEPT ![c] = Settle(Succeeded(@, v), Returned(v))]
    /\ UNCHANGED <<options, supplied, handlerOf, calls, input, aborted, listeners, timers>>

\* Mutant: canRetry(e) is called at the top of the catch block and its
\* result is used after the test of the budget.
CatchLastAttemptConsults(c, e) ==
    LET o == OptionsOf(c) f == frame[c] IN
    /\ f.pc = "attempting"
    /\ IsLastAttempt(o, f.i)
    /\ frame' = [frame EXCEPT ![c] =
                    Settle(Classified(o, Failed(f, e)),
                           IF o.reraise = Some(TRUE)
                           THEN Thrown(e)
                           ELSE MaxAttemptsError(e, f.i))]
    /\ UNCHANGED <<options, supplied, handlerOf, calls, input, aborted, listeners, timers>>

\* Mutant: the classification comes before the test of the budget.
CatchLastAttemptClassifiesFirst(c, e) ==
    LET o == OptionsOf(c) f == frame[c] IN
    /\ f.pc = "attempting"
    /\ IsLastAttempt(o, f.i)
    /\ frame' = [frame EXCEPT ![c] =
                    Settle(Failed(f, e),
                           IF ~canRetry(o, e) \/ o.reraise = Some(TRUE)
                           THEN Thrown(e)
                           ELSE MaxAttemptsError(e, f.i))]
    /\ UNCHANGED <<options, supplied, handlerOf, calls, input, aborted, listeners, timers>>

\* Mutant: the signal is tested first in the catch block.
CatchLastAttemptAbortFirst(c, e) ==
    LET o == OptionsOf(c) f == frame[c] IN
    /\ f.pc = "attempting"
    /\ IsLastAttempt(o, f.i)
    /\ frame' = [frame EXCEPT ![c] =
                    Settle(Failed(f, e),
                           IF SignalAborted(o)
                           THEN AbortError(AbortErrorMessage)
                           ELSE IF o.reraise = Some(TRUE)
                                THEN Thrown(e)
                                ELSE MaxAttemptsError(e, f.i))]
    /\ UNCHANGED <<options, supplied, handlerOf, calls, input, aborted, listeners, timers>>

\* Mutant: reraise is not looked at.
CatchLastAttemptAlwaysWraps(c, e) ==
    LET o == OptionsOf(c) f == frame[c] IN
    /\ f.pc = "attempting"
    /\ IsLastAttempt(o, f.i)
    /\ frame' = [frame EXCEPT ![c] = Settle(Failed(f, e), MaxAttemptsError(e, f.i))]
    /\ UNCHANGED <<options, supplied, handlerOf, calls, input, aborted, listeners, timers>>

\* The operation throws e on the attempt with i == maxAttempts.
CatchLastAttempt(c, e) ==
    LET o == OptionsOf(c) f == frame[c] IN
    /\ f.pc = "attempting"
    /\ IsLastAttempt(o, f.i)
    /\ frame' = [frame EXCEPT ![c] =
                    Settle(Failed(f, e),
                           IF o.reraise = Some(TRUE)
                           THEN Thrown(e)
                           ELSE MaxAttemptsError(e, f.i))]
    /\ UNCHANGED <<options, supplied, handlerOf, calls, input, aborted, listeners, timers>>

\* Mutant: a non-retryable error is wrapped like an exhausted budget.
CatchNotRetryableWrapped(c, e) ==
    LET o == OptionsOf(c) f == frame[c] IN
    /\ f.pc = "attempting"
    /\ ~IsLastAttempt(o, f.i)
    /\ ~canRetry(o, e)
    /\ frame' = [frame EXCEPT ![c] = Settle(Classified(o, Failed(f, e)), MaxAttemptsError(e, f.i))]
    /\ UNCHANGED <<options, supplied, handlerOf, calls, input, aborted, listeners, timers>>

\* The operation throws e, attempts remain and canRetry(e) is false.
CatchNotRetryable(c, e) ==
    LET o == OptionsOf(c) f == frame[c] IN
    /\ f.pc = "attempting"
    /\ ~IsLastAttempt(o, f.i)
    /\ ~canRetry(o, e)
    /\ frame' = [frame EXCEPT ![c] = Settle(Classified(o, Failed(f, e)), Thrown(e))]
    /\ UNCHANGED <<options, supplied, handlerOf, calls, input, aborted, listeners, timers>>

\* The operation throws a retryable e and the signal is aborted by then.
CatchAborted(c, e) ==
    LET o == OptionsOf(c) f == frame[c] IN
    /\ f.pc = "attempting"
    /\ ~IsLastAttempt(o, f.i)
    /\ canRetry(o, e)
    /\ SignalAborted(o)
    /\ frame' = [frame EXCEPT ![c] =
                    Settle(Classified(o, Failed(f, e)), AbortError(AbortErrorMessage))]
    /\ UNCHANGED <<options, supplied, handlerOf, calls, input, aborted, listeners, timers>>

\* Mutant: a plain sleep(ms), which subscribes nothing to the signal.
sleepWithoutAbort(c, e) ==
    LET o == OptionsOf(c) f == frame[c] k == frame[c].sleeps + 1 IN
    /\ f.pc = "attempting"
    /\ ~IsLastAttempt(o, f.i)
    /\ canRetry(o, e)
    /\ ~SignalAborted(o)
    /\ Truthy(f.backOff)
    /\ frame' = [frame EXCEPT ![c] =
                    [Classified(o, Failed(f, e)) EXCEPT !.pc = "sleeping", !.sleeps = k,
                                         !.waits = Append(@, Get(f.backOff))]]
    /\ timers' = timers \cup {<<"timeout", c, k>>}
    /\ UNCHANGED <<options, supplied, handlerOf, calls, input, aborted, listeners>>

\* Mutant: sleepWithAbort is called but not awaited: the loop goes on to the
\* next attempt while the timer runs.
sleepNotAwaited(c, e) ==
    LET o == OptionsOf(c) f == frame[c] k == frame[c].sleeps + 1 IN
    /\ f.pc = "attempting"
    /\ ~IsLastAttempt(o, f.i)
    /\ canRetry(o, e)
    /\ ~SignalAborted(o)
    /\ Truthy(f.backOff)
    /\ frame' = [frame EXCEPT ![c] =
                    AfterWait(o, [Classified(o, Failed(f, e)) EXCEPT
                                     !.sleeps = k, !.waits = Append(@, Get(f.backOff))])]
    /\ timers' = timers \cup {<<"timeout", c, k>>, <<"cleanup", c, k>>}
    /\ listeners' = IF IsDefined(o.signal)
                    THEN [listeners EXCEPT ![Get(o.signal)] = @ \cup {<<c, k>>}]
                    ELSE listeners
    /\ UNCHANGED <<options, supplied, handlerOf, calls, input, aborted>>

\* Mutant: the delay is halved before the sleep, whatever the options say.
sleepWithHalvedDelay(c, e) ==
    LET o == OptionsOf(c) f == frame[c] k == frame[c].sleeps + 1 IN
    /\ f.pc = "attempting"
    /\ ~IsLastAttempt(o, f.i)
    /\ canRetry(o, e)
    /\ ~SignalAborted(o)
    /\ Truthy(f.backOff)
    /\ frame' = [frame EXCEPT ![c] =
                    [Classified(o, Failed(f, e)) EXCEPT !.pc = "sleeping", !.sleeps = k,
                                         !.waits = Append(@, Get(f.backOff) \div 2)]]
    /\ timers' = timers \cup {<<"timeout", c, k>>, <<"cleanup", c, k>>}
    /\ listeners' = IF IsDefined(o.signal)
                    THEN [listeners EXCEPT ![Get(o.signal)] = @ \cup {<<c, k>>}]
                    ELSE listeners
    /\ UNCHANGED <<options, supplied, handlerOf, calls, input, aborted>>

\* The operation throws a retryable e and backOff is truthy: sleepWithAbort
\* creates the timer, subscribes onAbort and creates the clean-up timer.
\* (Its own test of signal.aborted runs in the same turn as the one of the
\* catch block, so it finds the signal as that one left it: not aborted.)
sleepWithAbort(c, e) ==
    LET o == OptionsOf(c) f == frame[c] k == frame[c].sleeps + 1 IN
    /\ f.pc = "attempting"
    /\ ~IsLastAttempt(o, f.i)
    /\ canRetry(o, e)
    /\ ~SignalAborted(o)
    /\ Truthy(f.backOff)
    /\ frame' = [frame EXCEPT ![c] =
                    [Classified(o, Failed(f, e)) EXCEPT !.pc = "sleeping", !.sleeps = k,
                                         !.waits = Append(@, Get(f.backOff))]]
    /\ timers' = timers \cup {<<"timeout", c, k>>, <<"cleanup", c, k>>}
    /\ listeners' = IF IsDefined(o.signal)
                    THEN [listeners EXCEPT ![Get(o.signal)] = @ \cup {<<c, k>>}]
                    ELSE listeners
    /\ UNCHANGED <<options, supplied, handlerOf, calls, input, aborted>>

\* The operation throws a retryable e and backOff is falsy: no wait, the
\* loop goes on to the next attempt in the same run.
CatchNoBackOff(c, e) ==
    LET o == OptionsOf(c) f == frame[c] IN
    /\ f.pc = "attempting"
    /\ ~IsLastAttempt(o, f.i)
    /\ canRetry(o, e)
    /\ ~SignalAborted(o)
    /\ ~Truthy(f.backOff)
    /\ frame' = [frame EXCEPT ![c] = AfterWait(o, Classified(o, Failed(f, e)))]
    /\ UNCHANGED <<options, supplied, handlerOf, calls, input, aborted, listeners, timers>>

\* No continuation of a rejected sleep is queued. The event loop runs the
\* jobs of the microtask queue before it runs the callback of a timer.
NoJobQueued == \A d \in CallIds : frame[d].pc # "sleepRejected"

\* Mutant: the timer fires but its callback does not resolve the promise of
\* the sleep.
TimeoutFireNeverResolves(c) ==
    LET f == frame[c] IN
    /\ NoJobQueued
    /\ <<"timeout", c, f.sleeps>> \in timers
    /\ \A k \in 1..(f.sleeps - 1) : <<"cleanup", c, k>> \notin timers
    /\ timers' = timers \ {<<"timeout", c, f.sleeps>>}
    /\ UNCHANGED <<options, supplied, handlerOf, calls, input, aborted, listeners, frame>>

\* Mutant: the delay that was computed is kept on the options object.
TimeoutFireStoresBackOff(c) ==
    LET o == OptionsOf(c) f == frame[c] IN
    /\ NoJobQueued
    /\ <<"timeout", c, f.sleeps>> \in timers
    /\ \A k \in 1..(f.sleeps - 1) : <<"cleanup", c, k>> \notin timers
    /\ timers' = timers \ {<<"timeout", c, f.sleeps>>}
    /\ frame' = [frame EXCEPT ![c] = AfterWait(o, f)]
    /\ options' = [options EXCEPT ![handlerOf[c]].backOff = NextBackOff(o, f.backOff, f.i)]
    /\ UNCHANGED <<supplied, handlerOf, calls, input, aborted, listeners>>

\* setTimeout(resolve, ms) fires: the sleep is over and retryAsync goes on.
\* Timers of equal delay fire in the order they were created, so the
\* clean-up timer of an earlier sleep of the call has fired by then.
TimeoutFire(c) ==
    LET o == OptionsOf(c) f == frame[c] IN
    /\ NoJobQueued
    /\ <<"timeout", c, f.sleeps>> \in timers
    /\ \A k \in 1..(f.sleeps - 1) : <<"cleanup", c, k>> \notin timers
    /\ timers' = timers \ {<<"timeout", c, f.sleeps>>}
    /\ frame' = [frame EXCEPT ![c] = AfterWait(o, f)]
    /\ UNCHANGED <<options, supplied, handlerOf, calls, input, aborted, listeners>>

\* The clean-up timer of sleep k fires: signal?.removeEventListener.
CleanupFire(c, k) ==
    LET o == OptionsOf(c) IN
    /\ NoJobQueued
    /\ <<"cleanup", c, k>> \in timers
    /\ <<"timeout", c, k>> \notin timers
    /\ timers' = timers \ {<<"cleanup", c, k>>}
    /\ listeners' = IF IsDefined(o.signal)
                    THEN [listeners EXCEPT ![Get(o.signal)] = @ \ {<<c, k>>}]
                    ELSE listeners
    /\ UNCHANGED <<options, supplied, handlerOf, calls, input, aborted, frame>>

\* The tokens some call of this run observes.
TokensInUse ==
    {Get(OptionsOf(c).signal) : c \in {d \in calls : IsDefined(OptionsOf(d).signal)}}

\* Mutant: one list of listeners for all signals: aborting one signal runs
\* the onAbort of the sleeps that wait on another.
AbortAnySignal(t) ==
    /\ t \in TokensInUse
    /\ ~aborted[t]
    /\ aborted' = [aborted EXCEPT ![t] = TRUE]
    /\ listeners' = [u \in TokenIds |-> {}]
    /\ timers' = timers \ {<<"timeout", l[1], l[2]>> : l \in UNION {listeners[u] : u \in TokenIds}}
    /\ frame' = [c \in CallIds |->
                    IF frame[c].pc = "sleeping"
                       /\ \E u \in TokenIds : <<c, frame[c].sleeps>> \in listeners[u]
                    THEN [frame[c] EXCEPT !.pc = "sleepRejected"]
                    ELSE frame[c]]
    /\ UNCHANGED <<options, supplied, handlerOf, calls, input>>

\* Mutant: the event reaches one subscribed onAbort only.
AbortFirstListenerOnly(t) ==
    /\ t \in TokensInUse
    /\ ~aborted[t]
    /\ aborted' = [aborted EXCEPT ![t] = TRUE]
    /\ LET hit == IF listeners[t] = {} THEN {}
                  ELSE {CHOOSE l \in listeners[t] : TRUE}
       IN /\ listeners' = [listeners EXCEPT ![t] = @ \ hit]
          /\ timers' = timers \ {<<"timeout", l[1], l[2]>> : l \in hit}
          /\ frame' = [c \in CallIds |->
                          IF frame[c].pc = "sleeping" /\ <<c, frame[c].sleeps>> \in hit
                          THEN [frame[c] EXCEPT !.pc = "sleepRejected"]
                          ELSE frame[c]]
    /\ UNCHANGED <<options, supplied, handlerOf, calls, input>>

\* controller.abort(): the signal becomes aborted and the 'abort' event is
\* dispatched to every subscribed onAbort ({once: true} unsubscribes it):
\* clearTimeout(timeout) and reject(new AbortError(...)). The call that is
\* awaiting that sleep is still suspended when abort() returns: its promise
\* is rejected and its continuation is a job in the microtask queue.
Abort(t) ==
    /\ t \in TokensInUse
    /\ ~aborted[t]
    /\ aborted' = [aborted EXCEPT ![t] = TRUE]
    /\ listeners' = [listeners EXCEPT ![t] = {}]
    /\ timers' = timers \ {<<"timeout", l[1], l[2]>> : l \in listeners[t]}
    /\ frame' = [c \in CallIds |->
                    IF frame[c].pc = "sleeping" /\ <<c, frame[c].sleeps>> \in listeners[t]
                    THEN [frame[c] EXCEPT !.pc = "sleepRejected"]
                    ELSE frame[c]]
    /\ UNCHANGED <<options, supplied, handlerOf, calls, input>>

\* retryAsync is resumed at 'await sleepWithAbort' with the rejection of the
\* sleep: the AbortError is thrown out of the catch block and ends the call.
SleepRejected(c) ==
    /\ frame[c].pc = "sleepRejected"
    /\ frame' = [frame EXCEPT ![c] = Settle(@, AbortError(AbortErrorMessage))]
    /\ UNCHANGED <<options, supplied, handlerOf, calls, input, aborted, listeners, timers>>

Next ==
    \/ \E c \in CallIds : Execute(c)
    \/ \E c \in CallIds, v \in Values : FnResolve(c, v)
    \/ \E c \in CallIds, e \in Errors : CatchLastAttempt(c, e)
    \/ \E c \in CallIds, e \in Errors : CatchNotRetryable(c, e)
    \/ \E c \in CallIds, e \in Errors : CatchAborted(c, e)
    \/ \E c \in CallIds, e \in Errors : sleepWithAbort(c, e)
    \/ \E c \in CallIds, e \in Errors : CatchNoBackOff(c, e)
    \/ \E c \in CallIds : TimeoutFire(c)
    \/ \E c \in CallIds, k \in 1..(MaxAttemptsBound + 1) : CleanupFire(c, k)
    \/ \E t \in TokenIds : Abort(t)
    \/ \E c \in CallIds : SleepRejected(c)

----------------------------------------------------------------------------
\* The options callers write, and the initial states.

\* The receivers and the argument lists callers call the wrapped function or
\* the decorated method with.
Receivers == {"undefined", "service"}
ArgLists == {<<>>, <<"a", "b", "c">>}
DefaultInput == [context |-> "service", args |-> <<>>]

\* One call on one handler; the policy covers every classification set-up
\* (predicate, type filter), both backoff policies with and without a delay,
\* reraise, and a call with and without a signal.
SuppliedOptions ==
    [maxAttempts : 0..MaxAttemptsBound,
     backOffPolicy : {None, Some(FixedBackOffPolicy), Some(ExponentialBackOffPolicy)},
     backOff : {None, Some(1000)},
     doRetry : {None, Some("is429"), Some("always"), Some("never")},
     value : {None, Some(<<>>), Some(<<"SyntaxError", "ReferenceError">>), Some(<<"Error">>)},
     exponentialOption : {None},
     reraise : {None, Some(FALSE), Some(TRUE)},
     signal : {None, Some("t1")}]

Init ==
    /\ \E raw \in SuppliedOptions :
          /\ supplied = [h \in HandlerIds |-> raw]
          /\ options = [h \in HandlerIds |-> createRetryHandler(raw)]
    /\ handlerOf = [c \in CallIds |-> "h1"]
    /\ calls = {"c1"}
    /\ input = [c \in CallIds |-> DefaultInput]
    /\ aborted = [t \in TokenIds |-> FALSE]
    /\ listeners = [t \in TokenIds |-> {}]
    /\ timers = {}
    /\ frame = [c \in CallIds |-> NewFrame]

Spec == Init /\ [][Next]_vars

\* The invocation of the operation that call c has in flight settles: it
\* returns a value or throws an error, and retryAsync runs on from its await.
Settles(c) ==
    \/ \E v \in Values : FnResolve(c, v)
    \/ \E e \in Errors :
          \/ CatchLastAttempt(c, e)
          \/ CatchNotRetryable(c, e)
          \/ CatchAborted(c, e)
          \/ sleepWithAbort(c, e)
          \/ CatchNoBackOff(c, e)

\* Every invocation of the operation settles in the end, and the event loop
\* runs every timer that is due and every job that is queued.
Fairness ==
    \A c \in CallIds :
        /\ WF_vars(Settles(c))
        /\ WF_vars(TimeoutFire(c))
        /\ WF_vars(SleepRejected(c))
        /\ \A k \in 1..(MaxAttemptsBound + 1) : WF_vars(CleanupFire(c, k))

SpecLive == Init /\ [][Next]_vars /\ Fairness

\* The options of the backoff claims: every policy, delays that are unset,
\* zero, below and above the cap, and exponentialOption objects that are
\* unset, empty, partial and complete.
ExponentialOptions ==
    [maxInterval : {None, Some(4000)}, multiplier : {None, Some(1), Some(3)}]

BackoffOptions ==
    [maxAttempts : 0..MaxAttemptsBound,
     backOffPolicy : {None, Some(FixedBackOffPolicy), Some(ExponentialBackOffPolicy)},
     backOff : {None, Some(0), Some(100), Some(1000), Some(3000)},
     doRetry : {None, Some("is429")},
     value : {None},
     exponentialOption : {None} \cup {Some(eo) : eo \in ExponentialOptions},
     reraise : {None},
     signal : {None, Some("t1")}]

InitBackoff ==
    /\ \E raw \in BackoffOptions :
          /\ supplied = [h \in HandlerIds |-> raw]
          /\ options = [h \in HandlerIds |-> createRetryHandler(raw)]
    /\ handlerOf = [c \in CallIds |-> "h1"]
    /\ calls = {"c1"}
    /\ input = [c \in CallIds |-> DefaultInput]
    /\ aborted = [t \in TokenIds |-> FALSE]
    /\ listeners = [t \in TokenIds |-> {}]
    /\ timers = {}
    /\ frame = [c \in CallIds |-> NewFrame]

SpecBackoff == InitBackoff /\ [][Next]_vars

\* The options as createRetryHandler takes them: maxAttempts is any number
\* the caller wrote, a negative one included.
UnvalidatedOptions ==
    [maxAttempts : (0 - 1)..MaxAttemptsBound,
     backOffPolicy : {None, Some(ExponentialBackOffPolicy)},
     backOff : {None, Some(1000)},
     doRetry : {None, Some("is429")},
     value : {None},
     exponentialOption : {None},
     reraise : {None, Some(TRUE)},
     signal : {None, Some("t1")}]

InitUnvalidated ==
    /\ \E raw \in UnvalidatedOptions :
          /\ supplied = [h \in HandlerIds |-> raw]
          /\ options = [h \in HandlerIds |-> createRetryHandler(raw)]
    /\ handlerOf = [c \in CallIds |-> "h1"]
    /\ calls = {"c1"}
    /\ input = [c \in CallIds |-> DefaultInput]
    /\ aborted = [t \in TokenIds |-> FALSE]
    /\ listeners = [t \in TokenIds |-> {}]
    /\ timers = {}
    /\ frame = [c \in CallIds |-> NewFrame]

SpecUnvalidated == InitUnvalidated /\ [][Next]_vars

\* Two concurrent calls, c1 on handler h1 and c2 on handler h2. The handlers
\* have the same policy; h1 observes token t1, h2 observes the same token,
\* another token or none.
ConcurrentOptions ==
    [maxAttempts : 0..MaxAttemptsBound,
     backOffPolicy : {None},
     backOff : {None, Some(1000)},
     doRetry : {None, Some("is429")},
     value : {None},
     exponentialOption : {None},
     reraise : {None},
     signal : {Some("t1")}]

InitConcurrent ==
    /\ \E raw \in ConcurrentOptions, sig2 \in {None, Some("t1"), Some("t2")} :
          /\ supplied = [h \in HandlerIds |->
                            IF h = "h1" THEN raw ELSE [raw EXCEPT !.signal = sig2]]
          /\ options = [h \in HandlerIds |->
                            createRetryHandler(IF h = "h1" THEN raw
                                               ELSE [raw EXCEPT !.signal = sig2])]
    /\ handlerOf = [c \in CallIds |-> IF c = "c1" THEN "h1" ELSE "h2"]
    /\ calls = {"c1", "c2"}
    /\ input = [c \in CallIds |-> DefaultInput]
    /\ aborted = [t \in TokenIds |-> FALSE]
    /\ listeners = [t \in TokenIds |-> {}]
    /\ timers = {}
    /\ frame = [c \in CallIds |-> NewFrame]

SpecConcurrent == InitConcurrent /\ [][Next]_vars

\* Two calls of the same wrapped function, both on handler h1, under a policy
\* whose delay changes from one wait to the next (a base above the cap).
SharedOptions ==
    [maxAttempts : 0..MaxAttemptsBound,
     backOffPolicy : {None, Some(ExponentialBackOffPolicy)},
     backOff : {None, Some(3000)},
     doRetry : {None, Some("is429")},
     value : {None},
     exponentialOption : {None},
     reraise : {None},
     signal : {Some("t1")}]

InitShared ==
    /\ \E raw \in SharedOptions :
          /\ supplied = [h \in HandlerIds |-> raw]
          /\ options = [h \in HandlerIds |-> createRetryHandler(raw)]
    /\ handlerOf = [c \in CallIds |-> "h1"]
    /\ calls = {"c1", "c2"}
    /\ input = [c \in CallIds |-> DefaultInput]
    /\ aborted = [t \in TokenIds |-> FALSE]
    /\ listeners = [t \in TokenIds |-> {}]
    /\ timers = {}
    /\ frame = [c \in CallIds |-> NewFrame]

SpecShared == InitShared /\ [][Next]_vars

\* Two calls of the same wrapped function or decorated method, each with a
\* receiver and arguments of its own.
Inputs == [context : Receivers, args : ArgLists]

CallOptions ==
    [maxAttempts : 0..MaxAttemptsBound,
     backOffPolicy : {None},
     backOff : {None, Some(1000)},
     doRetry : {None, Some("is429")},
     value : {None},
     exponentialOption : {None},
     reraise : {None},
     signal : {Some("t1")}]

InitCall ==
    /\ \E raw \in CallOptions :
          /\ supplied = [h \in HandlerIds |-> raw]
          /\ options = [h \in HandlerIds |-> createRetryHandler(raw)]
    /\ handlerOf = [c \in CallIds |-> "h1"]
    /\ calls = {"c1", "c2"}
    /\ \E in1 \in Inputs, in2 \in Inputs :
          /\ in1.context # in2.context
          /\ in1.args # in2.args
          /\ input = [c \in CallIds |-> IF c = "c1" THEN in1 ELSE in2]
    /\ aborted = [t \in TokenIds |-> FALSE]
    /\ listeners = [t \in TokenIds |-> {}]
    /\ timers = {}
    /\ frame = [c \in CallIds |-> NewFrame]

SpecCall == InitCall /\ [][Next]_vars

\* Options objects that also carry the properties useJitter and jitterType,
\* as the callers of the jitter tests write them. RetryOptions declares
\* neither and the handler reads neither.
JitterTypes == {"full", "equal", "decorrelated", "none"}

JitterOptions ==
    [maxAttempts : 0..MaxAttemptsBound,
     backOffPolicy : {None, Some(FixedBackOffPolicy), Some(ExponentialBackOffPolicy)},
     backOff : {None, Some(500), Some(3000)},
     doRetry : {None, Some("is429")},
     value : {None},
     exponentialOption : {None},
     reraise : {None},
     signal : {None, Some("t1")},
     useJitter : {None, Some(FALSE), Some(TRUE)},
     jitterType : {None} \cup {Some(j) : j \in JitterTypes}]

InitJitter ==
    /\ \E raw \in JitterOptions :
          /\ supplied = [h \in HandlerIds |-> raw]
          /\ options = [h \in HandlerIds |-> createRetryHandler(raw)]
    /\ handlerOf = [c \in CallIds |-> "h1"]
    /\ calls = {"c1"}
    /\ input = [c \in CallIds |-> DefaultInput]
    /\ aborted = [t \in TokenIds |-> FALSE]
    /\ listeners = [t \in TokenIds |-> {}]
    /\ timers = {}
    /\ frame = [c \in CallIds |-> NewFrame]

SpecJitter == InitJitter /\ [][Next]_vars

----------------------------------------------------------------------------
\* Vocabulary of the properties.

Last(s) == s[Len(s)]

\* The call is in a backoff wait whose timer is still to fire.
TimeoutPending(c) == \E k \in 1..frame[c].sleeps : <<"timeout", c, k>> \in timers

\* The two ways the classifier forbids a retry, as the specification words them.
PredicateForbids(o, e) == IsDefined(o.doRetry) /\ ~DoRetry(Get(o.doRetry), e)
FilterForbids(o, e) ==
    /\ IsDefined(o.value)
    /\ Get(o.value) # <<>>
    /\ \A n \in DOMAIN Get(o.value) : ~InstanceOf(e, Get(o.value)[n])
RetryPermitted(o, e) == ~PredicateForbids(o, e) /\ ~FilterForbids(o, e)

Done(c) == frame[c].pc = "done"
Attempted(c) == frame[c].attempts # <<>>
LastFailed(c) == Attempted(c) /\ ~Last(frame[c].attempts).ok

----------------------------------------------------------------------------
\* C1: for every policy with maxAttempts >= 0, whatever the operation's
\* outcomes and whenever the token is signaled, one execute call invokes the
\* operation at most maxAttempts + 1 times.
C1_InvocationsBounded ==
    \A c \in CallIds :
        OptionsOf(c).maxAttempts >= 0
            => frame[c].invocations <= OptionsOf(c).maxAttempts + 1

\* The whole budget is used: two retries, three invocations, with a wait
\* before each retry and a token that was signaled in the end.
C1_Witness ==
    LET f == frame["c1"] o == OptionsOf("c1") IN
    /\ o.maxAttempts >= 2
    /\ f.invocations = o.maxAttempts + 1
    /\ Len(f.waits) = o.maxAttempts
    /\ SignalAborted(o)

\* C2: once an invocation has succeeded (on whatever attempt index), the call
\* has returned exactly that invocation's value, and from then on there is no
\* further invocation, no further wait and no other outcome.
C2_SuccessIsTerminal ==
    [][\A c \in CallIds :
          (frame'[c].attempts # <<>> /\ Last(frame'[c].attempts).ok) =>
              /\ frame'[c].pc = "done"
              /\ frame'[c].outcome.type = "value"
              /\ frame'[c].outcome.value = Last(frame'[c].attempts).value
              /\ frame'[c].invocations = Len(frame'[c].attempts)
              /\ \A k \in 1..frame'[c].sleeps : <<"timeout", c, k>> \notin timers'
              /\ (Done(c) => frame'[c] = frame[c])]_vars

\* A success on the first retry of a call that had budget left.
C2_Witness ==
    LET f == frame["c1"] o == OptionsOf("c1") IN
    /\ Done("c1")
    /\ f.outcome.type = "value"
    /\ f.outcome.value = "success"
    /\ Len(f.attempts) = 2
    /\ Last(f.attempts).index < o.maxAttempts

\* C3: with reraise unset or false and the token not signaled, a call all of
\* whose attempts failed with a retryable error has made exactly
\* maxAttempts + 1 invocations and has failed with MaxAttemptsError, whose
\* originalError is the error of the final attempt and whose retryCount is
\* maxAttempts.
C3_ExhaustionWrapsLastError ==
    \A c \in CallIds :
        LET f == frame[c] o == OptionsOf(c) IN
        (/\ Done(c)
         /\ o.reraise # Some(TRUE)
         /\ ~SignalAborted(o)
         /\ \A n \in DOMAIN f.attempts :
               ~f.attempts[n].ok /\ RetryPermitted(o, f.attempts[n].error))
        => /\ f.invocations = o.maxAttempts + 1
           /\ Len(f.attempts) = o.maxAttempts + 1
           /\ f.outcome.type = "MaxAttemptsError"
           /\ f.outcome.originalError = Last(f.attempts).error
           /\ f.outcome.retryCount = o.maxAttempts

\* Three retryable failures, the last with another error than the first.
C3_Witness ==
    LET f == frame["c1"] o == OptionsOf("c1") IN
    /\ Done("c1")
    /\ o.reraise # Some(TRUE)
    /\ ~SignalAborted(o)
    /\ Len(f.attempts) = 3
    /\ \A n \in DOMAIN f.attempts :
          ~f.attempts[n].ok /\ RetryPermitted(o, f.attempts[n].error)
    /\ f.attempts[1].error # f.attempts[3].error
    /\ f.outcome.type = "MaxAttemptsError"

\* C4: with reraise = true, once the attempt with index maxAttempts has
\* failed the call has failed with that attempt's error itself, not with
\* MaxAttemptsError, also when the classifier would have forbidden a retry.
C4_ReraiseAtExhaustion ==
    \A c \in CallIds :
        LET f == frame[c] o == OptionsOf(c) IN
        (/\ o.reraise = Some(TRUE)
         /\ LastFailed(c)
         /\ Last(f.attempts).index = o.maxAttempts)
        => /\ Done(c)
           /\ f.outcome.type = "thrown"
           /\ f.outcome.error = Last(f.attempts).error

\* The final attempt of a call with a retry behind it fails with an error
\* that the classifier forbids.
C4_Witness ==
    LET f == frame["c1"] o == OptionsOf("c1") IN
    /\ o.reraise = Some(TRUE)
    /\ o.maxAttempts >= 1
    /\ LastFailed("c1")
    /\ Last(f.attempts).index = o.maxAttempts
    /\ ~RetryPermitted(o, Last(f.attempts).error)
    /\ f.outcome.type = "thrown"

\* C5: once an attempt with index i < maxAttempts has failed with an error
\* that the predicate rejects or that matches no member of the non-empty type
\* filter, the call has failed with that error unwrapped, whatever reraise
\* is, with no invocation after that attempt and no wait entered after it.
C5_NotRetryableFailsAtOnce ==
    \A c \in CallIds :
        LET f == frame[c] o == OptionsOf(c) IN
        (/\ LastFailed(c)
         /\ Last(f.attempts).index < o.maxAttempts
         /\ (PredicateForbids(o, Last(f.attempts).error)
                \/ FilterForbids(o, Last(f.attempts).error)))
        => /\ Done(c)
           /\ f.outcome.type = "thrown"
           /\ f.outcome.error = Last(f.attempts).error
           /\ f.invocations = Len(f.attempts)
           /\ Len(f.waits) < Len(f.attempts)
           /\ ~TimeoutPending(c)

\* A non-retryable failure on the first retry, after one wait, with reraise
\* set and budget left.
C5_Witness ==
    LET f == frame["c1"] o == OptionsOf("c1") IN
    /\ o.reraise = Some(TRUE)
    /\ Len(f.attempts) = 2
    /\ Len(f.waits) = 1
    /\ LastFailed("c1")
    /\ Last(f.attempts).index < o.maxAttempts
    /\ FilterForbids(o, Last(f.attempts).error)
    /\ f.outcome.type = "thrown"

\* C6: a call that starts while its token is already signaled ends at once
\* with AbortError and without invoking the operation, for every policy.
C6_AbortedBeforeStart ==
    [][\A c \in CallIds :
          (frame[c].pc = "idle" /\ frame'[c].pc # "idle" /\ SignalAborted(OptionsOf(c)))
          => /\ frame'[c].pc = "done"
             /\ frame'[c].outcome.type = "AbortError"
             /\ frame'[c].invocations = 0
             /\ frame'[c].attempts = <<>>]_vars

\* A call that ended without a single invocation.
C6_Witness ==
    LET f == frame["c1"] o == OptionsOf("c1") IN
    /\ Done("c1")
    /\ SignalAborted(o)
    /\ f.invocations = 0
    /\ f.outcome.type = "AbortError"
    /\ o.maxAttempts >= 1

\* C7: when the token becomes signaled while a call is in a backoff wait, the
\* wait ends in that step (its timer is cleared, not waited for, and the
\* sleep is rejected); the first step the call takes after that ends it with
\* AbortError, and the operation is not invoked again.
C7_AbortDuringWait ==
    [][\A c \in CallIds :
          LET o == OptionsOf(c) f == frame[c] g == frame'[c] IN
          /\ (/\ f.pc = "sleeping"
              /\ IsDefined(o.signal)
              /\ ~aborted[Get(o.signal)]
              /\ aborted'[Get(o.signal)])
             => /\ g = [f EXCEPT !.pc = "sleepRejected"]
                /\ \A k \in 1..g.sleeps : <<"timeout", c, k>> \notin timers'
          /\ (f.pc = "sleepRejected" /\ g # f)
             => /\ g = [f EXCEPT !.pc = "done", !.outcome = g.outcome]
                /\ g.outcome.type = "AbortError"
          /\ f.pc = "sleepRejected"
             => \A k \in 1..g.sleeps : <<"timeout", c, k>> \notin timers']_vars

\* A call aborted in its second wait: as many waits as attempts.
C7_Witness ==
    LET f == frame["c1"] o == OptionsOf("c1") IN
    /\ Done("c1")
    /\ f.outcome.type = "AbortError"
    /\ Len(f.waits) = 2
    /\ Len(f.attempts) = 2
    /\ f.invocations = 2
    /\ ~TimeoutPending("c1")

\* C8: when an attempt with index i < maxAttempts fails with a retryable
\* error and the token was signaled while that attempt was in flight, the
\* call fails with AbortError, enters no wait and invokes nothing more, under
\* the Fixed as under the Exponential policy.
C8_AbortAfterFailure ==
    [][\A c \in CallIds :
          LET o == OptionsOf(c) IN
          (/\ frame[c].pc = "attempting"
           /\ IsDefined(o.signal) /\ aborted[Get(o.signal)]
           /\ frame[c].i < o.maxAttempts
           /\ Len(frame'[c].attempts) = Len(frame[c].attempts) + 1
           /\ ~Last(frame'[c].attempts).ok
           /\ RetryPermitted(o, Last(frame'[c].attempts).error))
          => /\ frame'[c].pc = "done"
             /\ frame'[c].outcome.type = "AbortError"
             /\ frame'[c].invocations = frame[c].invocations
             /\ frame'[c].waits = frame[c].waits
             /\ timers' = timers]_vars

\* Under the Exponential policy: the second attempt fails retryably after the
\* token was signaled, and the call is over with one wait only.
C8_Witness ==
    LET f == frame["c1"] o == OptionsOf("c1") IN
    /\ o.backOffPolicy = Some(ExponentialBackOffPolicy)
    /\ Done("c1")
    /\ f.outcome.type = "AbortError"
    /\ Len(f.attempts) = 2
    /\ Len(f.waits) = 1
    /\ LastFailed("c1")
    /\ Last(f.attempts).index < o.maxAttempts
    /\ RetryPermitted(o, Last(f.attempts).error)

\* C9: a call that has terminated has one of four outcomes: a value, which
\* then is the value its last invocation returned; AbortError;
\* MaxAttemptsError around the error of its last invocation; or the error of
\* its last invocation itself. A call whose last invocation failed has not
\* resolved.
C9_OutcomeShapes ==
    \A c \in CallIds :
        LET f == frame[c] IN
        Done(c) =>
            /\ f.outcome.type \in {"value", "AbortError", "MaxAttemptsError", "thrown"}
            /\ f.outcome.type = "value" =>
                  /\ Attempted(c) /\ Last(f.attempts).ok
                  /\ f.outcome.value = Last(f.attempts).value
            /\ f.outcome.type = "thrown" =>
                  LastFailed(c) /\ f.outcome.error = Last(f.attempts).error
            /\ f.outcome.type = "MaxAttemptsError" =>
                  LastFailed(c) /\ f.outcome.originalError = Last(f.attempts).error
            /\ LastFailed(c) => f.outcome.type \in {"AbortError", "MaxAttemptsError", "thrown"}
            /\ f.invocations = Len(f.attempts)

\* A call that went through a retry and then ended on a failure.
C9_Witness ==
    LET f == frame["c1"] IN
    /\ Done("c1")
    /\ Len(f.attempts) >= 2
    /\ LastFailed("c1")
    /\ f.outcome.type \in {"MaxAttemptsError", "thrown"}

\* C10: canRetry(e) is true exactly when no predicate is configured or the
\* predicate holds of e, and no non-empty type filter is configured or e is
\* an instance of a member of it; and every failure of an attempt with index
\* below maxAttempts was handled accordingly: the call ended with that error
\* exactly when a retry was not permitted.
C10_CanRetry ==
    \A c \in CallIds :
        LET f == frame[c] o == OptionsOf(c) IN
        /\ \A e \in Errors :
              canRetry(o, e) <=>
                  /\ (~IsDefined(o.doRetry) \/ DoRetry(Get(o.doRetry), e))
                  /\ (~IsDefined(o.value) \/ Get(o.value) = <<>>
                         \/ \E n \in DOMAIN Get(o.value) : InstanceOf(e, Get(o.value)[n]))
        /\ \A n \in DOMAIN f.attempts :
              (~f.attempts[n].ok /\ f.attempts[n].index < o.maxAttempts)
              => (RetryPermitted(o, f.attempts[n].error)
                    <=> ~(n = Len(f.attempts) /\ Done(c) /\ f.outcome.type = "thrown"))

\* The predicate rejects an error whose class is in the type filter: the call
\* ends with it although the filter alone would have let it retry.
C10_Witness ==
    LET f == frame["c1"] o == OptionsOf("c1") IN
    /\ LastFailed("c1")
    /\ Last(f.attempts).index < o.maxAttempts
    /\ PredicateForbids(o, Last(f.attempts).error)
    /\ IsDefined(o.value) /\ Get(o.value) # <<>>
    /\ ~FilterForbids(o, Last(f.attempts).error)
    /\ f.outcome.type = "thrown"

\* C11: the test of the budget precedes the classification: with reraise
\* unset or false, once the attempt with index maxAttempts has failed with an
\* error the predicate or the type filter forbids to retry, the call has
\* failed with MaxAttemptsError around that error, not with the error itself.
C11_ExhaustionBeforeClassification ==
    \A c \in CallIds :
        LET f == frame[c] o == OptionsOf(c) IN
        (/\ o.reraise # Some(TRUE)
         /\ LastFailed(c)
         /\ Last(f.attempts).index = o.maxAttempts
         /\ ~RetryPermitted(o, Last(f.attempts).error))
        => /\ Done(c)
           /\ f.outcome.type = "MaxAttemptsError"
           /\ f.outcome.originalError = Last(f.attempts).error
           /\ f.outcome.retryCount = o.maxAttempts

\* The first attempt failed retryably, the final one with an error the
\* predicate rejects.
C11_Witness ==
    LET f == frame["c1"] o == OptionsOf("c1") IN
    /\ o.reraise # Some(TRUE)
    /\ o.maxAttempts = 1
    /\ Len(f.attempts) = 2
    /\ LastFailed("c1")
    /\ PredicateForbids(o, Last(f.attempts).error)
    /\ f.outcome.type = "MaxAttemptsError"

\* The token of call c was signaled while the attempt that fails in this step
\* was in flight.
FailsWhileSignaled(c) ==
    /\ frame[c].pc = "attempting"
    /\ IsDefined(OptionsOf(c).signal) /\ aborted[Get(OptionsOf(c).signal)]
    /\ Len(frame'[c].attempts) = Len(frame[c].attempts) + 1
    /\ ~Last(frame'[c].attempts).ok

\* C17 as stated: whenever the token is signaled when a failed attempt is
\* handled, the final attempt and a non-retryable error included, the call
\* fails with AbortError.
C17_AbortHasPriority ==
    [][\A c \in CallIds :
          FailsWhileSignaled(c)
          => frame'[c].pc = "done" /\ frame'[c].outcome.type = "AbortError"]_vars

\* C17 as amended: when the token is signaled when a failed attempt is
\* handled, the test of the budget and the classification come first: the
\* final attempt ends the call with MaxAttemptsError (the error itself under
\* reraise), a non-retryable error on an earlier attempt ends it with that
\* error, and only a retryable error on an earlier attempt ends it with
\* AbortError.
C17_AbortAfterBudgetAndClassification ==
    [][\A c \in CallIds :
          LET o == OptionsOf(c) e == Last(frame'[c].attempts).error IN
          FailsWhileSignaled(c)
          => /\ frame'[c].pc = "done"
             /\ frame'[c].outcome.type =
                   IF frame[c].i = o.maxAttempts
                   THEN (IF o.reraise = Some(TRUE) THEN "thrown" ELSE "MaxAttemptsError")
                   ELSE IF ~RetryPermitted(o, e) THEN "thrown" ELSE "AbortError"
             /\ frame'[c].outcome.type = "thrown" => frame'[c].outcome.error = e
             /\ frame'[c].outcome.type = "MaxAttemptsError"
                   => frame'[c].outcome.originalError = e]_vars

\* The token was signaled during the final attempt of a call with a retry
\* behind it, and the call ended with MaxAttemptsError.
C17_Witness ==
    LET f == frame["c1"] o == OptionsOf("c1") IN
    /\ Done("c1")
    /\ IsDefined(o.signal) /\ aborted[Get(o.signal)]
    /\ o.maxAttempts >= 1
    /\ LastFailed("c1")
    /\ Last(f.attempts).index = o.maxAttempts
    /\ f.outcome.type = "MaxAttemptsError"

----------------------------------------------------------------------------
\* Vocabulary of the backoff properties.

IsExponential(o) == o.backOffPolicy = Some(ExponentialBackOffPolicy)

\* baseDelay, and the cap and the multiplier of a handler under Exponential.
BaseDelay(o) == IF IsDefined(o.backOff) THEN Get(o.backOff) ELSE 0
MaxInterval(o) == Get(Get(o.exponentialOption).maxInterval)
Multiplier(o) == Get(Get(o.exponentialOption).multiplier)

RECURSIVE SumSeq(_)
SumSeq(q) == IF q = <<>> THEN 0 ELSE q[1] + SumSeq(Tail(q))

\* C12 as stated: under the Exponential policy the wait before retry i (the
\* first retry is i = 0) is min(baseDelay * multiplier^i, maxInterval).
C12_ExponentialFormula ==
    \A c \in CallIds :
        LET f == frame[c] o == OptionsOf(c) IN
        IsExponential(o) =>
            \A n \in DOMAIN f.waits :
                f.waits[n] = Min(BaseDelay(o) * Pow(Multiplier(o), n - 1), MaxInterval(o))

\* C13: under the Fixed policy, named or by default, every wait of a call is
\* baseDelay, whatever the retry index and whatever exponentialOption holds;
\* a call all of whose maxAttempts + 1 attempts failed, none of them cut short
\* by the token, has waited maxAttempts * baseDelay in all.
C13_FixedBackOff ==
    \A c \in CallIds :
        LET f == frame[c] o == OptionsOf(c) IN
        ~IsExponential(o) =>
            /\ \A n \in DOMAIN f.waits : f.waits[n] = BaseDelay(o)
            /\ (/\ Done(c)
                /\ Len(f.attempts) = o.maxAttempts + 1
                /\ \A n \in DOMAIN f.attempts : ~f.attempts[n].ok)
               => SumSeq(f.waits) = o.maxAttempts * BaseDelay(o)

\* Two waits of 1000 under the Fixed policy of a caller who also supplied an
\* exponentialOption with another multiplier.
C13_Witness ==
    LET f == frame["c1"] o == OptionsOf("c1") IN
    /\ o.backOffPolicy = Some(FixedBackOffPolicy)
    /\ IsDefined(o.exponentialOption)
    /\ Get(o.exponentialOption).multiplier = Some(3)
    /\ Done("c1")
    /\ o.maxAttempts = 2
    /\ Len(f.attempts) = 3
    /\ LastFailed("c1")
    /\ f.waits = <<1000, 1000>>

\* C14 as stated: every wait is >= 0 and, under the Exponential policy, every
\* wait, the first one included, is at most exponentialOption.maxInterval.
C14_WaitsWithinCap ==
    \A c \in CallIds :
        LET f == frame[c] o == OptionsOf(c) IN
        \A n \in DOMAIN f.waits :
            /\ f.waits[n] >= 0
            /\ IsExponential(o) => f.waits[n] <= MaxInterval(o)

\* C15: under the Exponential policy the handler's options hold 1000 for a
\* baseDelay the caller left unset, and an exponentialOption with each field
\* the caller supplied and the default (2000, 2) for each field the caller
\* left out; under the Fixed policy the options are what the caller supplied.
C15_ExponentialDefaults ==
    \A h \in HandlerIds :
        LET raw == supplied[h] o == options[h] IN
        IF raw.backOffPolicy = Some(ExponentialBackOffPolicy)
        THEN /\ raw.backOff = None => o.backOff = Some(1000)
             /\ IsDefined(o.exponentialOption)
             /\ Get(o.exponentialOption).maxInterval =
                   IF IsDefined(raw.exponentialOption)
                      /\ IsDefined(Get(raw.exponentialOption).maxInterval)
                   THEN Get(raw.exponentialOption).maxInterval ELSE Some(2000)
             /\ Get(o.exponentialOption).multiplier =
                   IF IsDefined(raw.exponentialOption)
                      /\ IsDefined(Get(raw.exponentialOption).multiplier)
                   THEN Get(raw.exponentialOption).multiplier ELSE Some(2)
        ELSE o = raw

\* A caller who chose Exponential, set no delay and only a multiplier: the
\* call waits the default 1000 under the default cap.
C15_Witness ==
    LET f == frame["c1"] raw == supplied["h1"] o == options["h1"] IN
    /\ raw.backOffPolicy = Some(ExponentialBackOffPolicy)
    /\ raw.backOff = None
    /\ raw.exponentialOption = Some([maxInterval |-> None, multiplier |-> Some(3)])
    /\ o.exponentialOption = Some([maxInterval |-> Some(2000), multiplier |-> Some(3)])
    /\ Len(f.waits) >= 1
    /\ f.waits[1] = 1000

\* C16 as stated: a handler with a negative maxAttempts is refused at
\* construction, so no call with a negative maxAttempts ever runs or returns.
C16_NegativeMaxAttemptsRefused ==
    \A c \in CallIds :
        OptionsOf(c).maxAttempts < 0 => frame[c].pc = "idle"

----------------------------------------------------------------------------
\* Concurrent calls.

\* Every call observes the token of call c.
SharedToken(c) ==
    /\ IsDefined(OptionsOf(c).signal)
    /\ \A d \in calls : OptionsOf(d).signal = OptionsOf(c).signal

\* The token of call c is signaled by this step or was signaled before it.
SignaledBy(c) == aborted'[Get(OptionsOf(c).signal)]

\* C18 as stated: once the token that all the running calls observe is
\* signaled, every call that had not terminated fails with AbortError.
C18_SharedTokenFailsAll ==
    [][\A c \in calls :
          (/\ SharedToken(c)
           /\ SignaledBy(c)
           /\ \A d \in calls : frame[d].pc \in {"attempting", "sleeping"}
           /\ frame'[c].pc = "done")
          => frame'[c].outcome.type = "AbortError"]_vars

\* C18 as amended: once the token that all the calls observe is signaled, no
\* call invokes the operation again or waits; the step that signals the
\* token ends the wait of every call that is in a backoff wait, and the next
\* step of such a call fails it with AbortError; a call that starts
\* afterwards fails with AbortError without an invocation, and a call whose
\* attempt is in flight ends when that attempt settles: with the value when
\* it succeeds, with MaxAttemptsError (the error itself under reraise) when
\* it was the final attempt, with the error itself when it is not
\* retryable, and with AbortError otherwise.
C18_SharedTokenEndsEachCall ==
    [][\A c \in calls :
          LET o == OptionsOf(c) f == frame[c] g == frame'[c] IN
          (SharedToken(c) /\ SignaledBy(c))
          => /\ g.invocations = f.invocations
             /\ g.pc # "sleeping"
             /\ f.pc = "sleeping" => g = [f EXCEPT !.pc = "sleepRejected"]
             /\ (f.pc = "sleepRejected" /\ g # f)
                   => g.pc = "done" /\ g.outcome.type = "AbortError"
             /\ (f.pc = "idle" /\ g.pc # "idle")
                   => g.pc = "done" /\ g.outcome.type = "AbortError"
             /\ (f.pc = "attempting" /\ g # f)
                   => /\ g.pc = "done"
                      /\ Len(g.attempts) = Len(f.attempts) + 1
                      /\ g.outcome.type =
                            IF Last(g.attempts).ok THEN "value"
                            ELSE IF f.i = o.maxAttempts
                            THEN (IF o.reraise = Some(TRUE) THEN "thrown"
                                  ELSE "MaxAttemptsError")
                            ELSE IF ~RetryPermitted(o, Last(g.attempts).error)
                            THEN "thrown" ELSE "AbortError"]_vars

\* Both calls observe t1 and were in a backoff wait when it was signaled:
\* both failed with AbortError.
C18_Witness ==
    /\ SharedToken("c1")
    /\ aborted["t1"]
    /\ \A c \in calls :
          /\ Done(c)
          /\ frame[c].outcome.type = "AbortError"
          /\ Len(frame[c].waits) >= 1
          /\ Len(frame[c].waits) = Len(frame[c].attempts)
          /\ frame[c].invocations = Len(frame[c].attempts)

\* Call c1 observes t1 and call c2 observes t2.
DistinctTokens ==
    /\ OptionsOf("c1").signal = Some("t1")
    /\ OptionsOf("c2").signal = Some("t2")

\* C19: when two calls of the same policy observe different tokens, the step
\* that signals the token of the first leaves the second call, its timers
\* and its token as they were; as long as its own token is not signaled the second call
\* never fails with AbortError, and when all its attempts failed with
\* retryable errors it has made maxAttempts + 1 invocations and failed with
\* MaxAttemptsError.
C19_OtherTokenUnaffected ==
    [][DistinctTokens
       => LET o == OptionsOf("c2") f == frame'["c2"] IN
          /\ (~aborted["t1"] /\ aborted'["t1"])
                => /\ frame'["c2"] = frame["c2"]
                   /\ {x \in timers' : x[2] = "c2"} = {x \in timers : x[2] = "c2"}
                   /\ listeners'["t2"] = listeners["t2"]
                   /\ aborted'["t2"] = aborted["t2"]
          /\ ~aborted'["t2"] => f.outcome.type # "AbortError"
          /\ (/\ f.pc = "done"
              /\ ~aborted'["t2"]
              /\ o.reraise # Some(TRUE)
              /\ \A n \in DOMAIN f.attempts :
                    ~f.attempts[n].ok /\ RetryPermitted(o, f.attempts[n].error))
             => /\ f.invocations = o.maxAttempts + 1
                /\ f.outcome.type = "MaxAttemptsError"
                /\ f.outcome.retryCount = o.maxAttempts]_vars

\* The first call was aborted through t1 after its first failure; the second
\* went on to retry, waited, and ended with MaxAttemptsError.
C19_Witness ==
    LET f1 == frame["c1"] f2 == frame["c2"] o == OptionsOf("c2") IN
    /\ DistinctTokens
    /\ aborted["t1"] /\ ~aborted["t2"]
    /\ f1.pc = "done" /\ f1.outcome.type = "AbortError"
    /\ Len(f1.attempts) = 1
    /\ f2.pc = "done" /\ f2.outcome.type = "MaxAttemptsError"
    /\ o.maxAttempts >= 1
    /\ f2.invocations = o.maxAttempts + 1
    /\ Len(f2.waits) = o.maxAttempts

\* Call c1 observes t1 and call c2 has no token.
TokenAndNoToken ==
    /\ OptionsOf("c1").signal = Some("t1")
    /\ OptionsOf("c2").signal = None

\* C20: a call of a policy with a token that is not signaled and a call of the
\* same policy without a token that saw the same outcomes of the operation
\* and stand at the same place have the same invocations, the same waits and
\* the same outcome; the call with the token never fails with AbortError
\* while the token is not signaled, and nothing changes it once it has
\* terminated, a later signal included.
C20_UnsignaledTokenIsNoToken ==
    [][TokenAndNoToken
       => /\ (/\ ~aborted'["t1"]
              /\ frame'["c1"].attempts = frame'["c2"].attempts
              /\ frame'["c1"].pc = frame'["c2"].pc)
             => frame'["c1"] = frame'["c2"]
          /\ ~aborted'["t1"] => frame'["c1"].outcome.type # "AbortError"
          /\ frame'["c2"].outcome.type # "AbortError"
          /\ frame["c1"].pc = "done" => frame'["c1"] = frame["c1"]]_vars

\* Both calls failed once, waited, and succeeded at the second attempt, the
\* token never signaled.
C20_Witness ==
    LET f1 == frame["c1"] f2 == frame["c2"] IN
    /\ TokenAndNoToken
    /\ ~aborted["t1"]
    /\ f1.pc = "done" /\ f2.pc = "done"
    /\ Len(f1.attempts) = 2
    /\ f1.waits = <<1000>>
    /\ f1.outcome.type = "value"
    /\ f1 = f2

----------------------------------------------------------------------------
\* Construction and the caller's options object.

\* C21 as stated: after construction the caller's options object, which is
\* the very object the handler closes over, holds in backOff and
\* exponentialOption exactly what the caller wrote.
C21_CallerOptionsUntouched ==
    \A h \in HandlerIds :
        /\ options[h].backOff = supplied[h].backOff
        /\ options[h].exponentialOption = supplied[h].exponentialOption

\* C22: no step of any call, sequential or concurrent, on a handler changes a
\* field of the handler's options.
C22_PolicyReadOnly ==
    [][\A h \in HandlerIds : options'[h] = options[h]]_vars

\* Two calls on the same Exponential handler have both run to their end, each
\* through two waits of different length, and one was aborted: the options
\* are still what construction made of the caller's.
C22_Witness ==
    /\ options["h1"].backOffPolicy = Some(ExponentialBackOffPolicy)
    /\ options["h1"] = createRetryHandler(supplied["h1"])
    /\ handlerOf["c1"] = "h1" /\ handlerOf["c2"] = "h1"
    /\ Done("c1") /\ Done("c2")
    /\ frame["c1"].waits = <<3000, 2000>>
    /\ Len(frame["c2"].waits) >= 1
    /\ frame["c2"].outcome.type = "AbortError"

\* The delay of the k-th wait of a call as the policy alone determines it:
\* the base delay first, then under Exponential each delay from the one
\* before it.
RECURSIVE ScheduledDelay(_, _)
ScheduledDelay(o, k) ==
    IF k = 1 THEN BaseDelay(o)
    ELSE IF IsExponential(o)
         THEN Min(ScheduledDelay(o, k - 1) * Pow(Multiplier(o), k - 2), MaxInterval(o))
         ELSE ScheduledDelay(o, k - 1)

\* C30: whatever other calls of the same handler have done or are doing, the
\* first wait of a call is the base delay of the policy and its k-th wait is
\* the delay the policy sets for k; the local delay of a call that has not
\* failed yet is the base delay.
C30_BackoffStatePerCall ==
    \A c \in calls :
        LET f == frame[c] o == OptionsOf(c) IN
        /\ (f.pc # "idle" /\ f.attempts = <<>>) => f.backOff = o.backOff
        /\ f.waits # <<>> => f.waits[1] = BaseDelay(o)
        /\ \A k \in DOMAIN f.waits : f.waits[k] = ScheduledDelay(o, k)

\* The first call has gone through a wait of 3000 and one of 2000; the second
\* call of the same handler, started after that, waits 3000 first.
C30_Witness ==
    /\ handlerOf["c1"] = "h1" /\ handlerOf["c2"] = "h1"
    /\ frame["c1"].waits = <<3000, 2000>>
    /\ frame["c1"].pc = "attempting"
    /\ frame["c2"].waits = <<3000>>
    /\ frame["c2"].pc = "sleeping"

\* C25: every invocation of the operation in a call, the first attempt and
\* every retry, is made with the receiver and the arguments the caller
\* called the wrapped function with.
C25_ReceiverAndArguments ==
    \A c \in calls :
        LET f == frame[c] IN
        /\ Len(f.applied) = f.invocations
        /\ \A n \in DOMAIN f.applied :
              /\ f.applied[n].context = Some(input[c].context)
              /\ f.applied[n].args = Some(input[c].args)

\* A method call on a service object with three arguments is at its third
\* invocation, while a call of the same handler with another receiver and no
\* argument is at its second.
C25_Witness ==
    /\ input["c1"] = [context |-> "service", args |-> <<"a", "b", "c">>]
    /\ input["c2"] = [context |-> "undefined", args |-> <<>>]
    /\ frame["c1"].invocations = 3
    /\ frame["c2"].invocations = 2
    /\ frame["c1"].applied[3] = [context |-> Some("service"), args |-> Some(<<"a", "b", "c">>)]
    /\ frame["c2"].applied[2] = [context |-> Some("undefined"), args |-> Some(<<>>)]

----------------------------------------------------------------------------
\* Jitter.

JitterEnabled(o) == o.useJitter = Some(TRUE)
JitterTypeOf(o) == IF IsDefined(o.jitterType) THEN Get(o.jitterType) ELSE "full"

\* The upper end of the Decorrelated range after a previous wait p.
DecorrelatedCap(o, p) ==
    IF IsDefined(o.exponentialOption) THEN Min(MaxInterval(o), 3 * p) ELSE 3 * p

\* C23 as stated: with jitter enabled, the k-th wait w of a call, of nominal
\* delay d, has 0 <= w < d under Full (the type when none is given),
\* d/2 <= w < d under Equal, and baseDelay <= w < min(maxInterval, 3 * p)
\* under Decorrelated, p being the wait before it or baseDelay for the first.
C23_JitterRanges ==
    \A c \in calls :
        LET f == frame[c] o == OptionsOf(c) IN
        JitterEnabled(o)
        => \A k \in DOMAIN f.waits :
              LET w == f.waits[k]
                  d == ScheduledDelay(o, k)
                  p == IF k = 1 THEN BaseDelay(o) ELSE f.waits[k - 1]
              IN CASE JitterTypeOf(o) = "full" -> 0 <= w /\ w < d
                   [] JitterTypeOf(o) = "equal" -> d <= 2 * w /\ w < d
                   [] JitterTypeOf(o) = "decorrelated" ->
                         BaseDelay(o) <= w /\ w < DecorrelatedCap(o, p)
                   [] OTHER -> TRUE

\* C24: with useJitter false or absent, or jitterType none, the k-th wait of
\* a call is the delay the handler's schedule sets for k, so the waits are a
\* function of the policy and of the number of failures alone.
C24_NoJitterExactDelay ==
    \A c \in calls :
        LET f == frame[c] o == OptionsOf(c) IN
        (~JitterEnabled(o) \/ o.jitterType = Some("none"))
        => /\ \A k \in DOMAIN f.waits : f.waits[k] = ScheduledDelay(o, k)
           /\ ~IsExponential(o) => \A k \in DOMAIN f.waits : f.waits[k] = BaseDelay(o)

\* useJitter: false and a fixed delay of 500: two waits of exactly 500.
C24_Witness ==
    LET f == frame["c1"] o == OptionsOf("c1") IN
    /\ o.useJitter = Some(FALSE)
    /\ o.backOffPolicy = None
    /\ o.backOff = Some(500)
    /\ f.waits = <<500, 500>>
    /\ Done("c1")

----------------------------------------------------------------------------
\* The phases of one call.

\* In this step an attempt of call c with attempts remaining fails with an
\* error the classifier lets through.
RetryableFailureStep(c) ==
    LET o == OptionsOf(c) f == frame[c] g == frame'[c] IN
    /\ f.pc = "attempting"
    /\ Len(g.attempts) = Len(f.attempts) + 1
    /\ ~Last(g.attempts).ok
    /\ f.i < o.maxAttempts
    /\ RetryPermitted(o, Last(g.attempts).error)

\* The token of call c is signaled before this step.
TokenSignaled(c) ==
    IsDefined(OptionsOf(c).signal) /\ aborted[Get(OptionsOf(c).signal)]

\* C26: with backOff not set and the policy Fixed or not set, a call never
\* waits and creates no timer; a retryable failure of a non-final attempt
\* leads in the same step to the next invocation, unless the token is
\* signaled, in which case the call fails with AbortError and invokes nothing.
C26_NoBackOffNoWait ==
    [][\A c \in calls :
          LET o == OptionsOf(c) f == frame[c] g == frame'[c] IN
          (supplied[handlerOf[c]].backOff = None /\ ~IsExponential(o))
          => /\ g.waits = <<>>
             /\ g.pc # "sleeping"
             /\ \A x \in timers' : x[2] # c
             /\ RetryableFailureStep(c)
                   => IF TokenSignaled(c)
                      THEN /\ g.pc = "done"
                           /\ g.outcome.type = "AbortError"
                           /\ g.invocations = f.invocations
                      ELSE /\ g.pc = "attempting"
                           /\ g.invocations = f.invocations + 1
                           /\ g.i = f.i + 1]_vars

\* A call without a delay is at its third invocation after two retryable
\* failures, without having waited.
C26_Witness ==
    LET f == frame["c1"] o == OptionsOf("c1") IN
    /\ supplied["h1"].backOff = None
    /\ o.backOffPolicy = Some(FixedBackOffPolicy)
    /\ IsDefined(o.signal)
    /\ f.pc = "attempting"
    /\ f.invocations = 3
    /\ Len(f.attempts) = 2
    /\ f.waits = <<>>

\* The failures of call c on attempts before the final one.
NonFinalFailures(c) ==
    {n \in DOMAIN frame[c].attempts :
        ~frame[c].attempts[n].ok /\ frame[c].attempts[n].index < OptionsOf(c).maxAttempts}

\* C27: canRetry is called once for every failure of an attempt with index
\* below maxAttempts and never for the failure of the attempt with index
\* maxAttempts; the doRetry predicate is called only by canRetry, so both
\* are called at most maxAttempts times in one call.
C27_ClassifierOnlyBeforeExhaustion ==
    \A c \in calls :
        LET f == frame[c] o == OptionsOf(c) IN
        /\ f.canRetryCalls = Cardinality(NonFinalFailures(c))
        /\ f.doRetryCalls = IF IsDefined(o.doRetry) THEN f.canRetryCalls ELSE 0
        /\ f.canRetryCalls <= o.maxAttempts
        /\ f.doRetryCalls <= o.maxAttempts

\* Three failures under maxAttempts 2 with a predicate: the predicate was
\* called for the first two and not for the third.
C27_Witness ==
    LET f == frame["c1"] o == OptionsOf("c1") IN
    /\ Done("c1")
    /\ o.maxAttempts = 2
    /\ IsDefined(o.doRetry)
    /\ Len(f.attempts) = 3
    /\ LastFailed("c1")
    /\ f.doRetryCalls = 2
    /\ f.outcome.type = "MaxAttemptsError"

\* C28: in one call at most one invocation is in flight, and none while the
\* call waits; a wait has its timer pending and an attempt has none; an
\* invocation after the first is made only when the attempt before it has
\* failed and, when a delay is set, in the step in which the timer of the
\* wait that followed that failure fires.
C28_AttemptAndSleepDoNotOverlap ==
    [][\A c \in calls :
          LET f == frame[c] g == frame'[c] IN
          /\ g.invocations - Len(g.attempts) = IF g.pc = "attempting" THEN 1 ELSE 0
          /\ g.pc = "attempting" => \A x \in timers' : ~(x[1] = "timeout" /\ x[2] = c)
          /\ g.pc = "sleeping" => <<"timeout", c, g.sleeps>> \in timers'
          /\ g.invocations # f.invocations
                => /\ g.invocations = f.invocations + 1
                   /\ \/ f.pc = "idle"
                      \/ /\ g.attempts # <<>>
                         /\ ~Last(g.attempts).ok
                         /\ Len(g.attempts) = f.invocations
                         /\ Truthy(f.backOff)
                               => /\ f.pc = "sleeping"
                                  /\ Len(f.waits) = Len(f.attempts)
                                  /\ <<"timeout", c, f.sleeps>> \in timers
                                  /\ <<"timeout", c, f.sleeps>> \notin timers']_vars

\* The third invocation of a call is in flight after two failures and the
\* two waits that followed them.
C28_Witness ==
    LET f == frame["c1"] IN
    /\ f.pc = "attempting"
    /\ f.invocations = 3
    /\ Len(f.attempts) = 2
    /\ f.waits = <<1000, 1000>>
    /\ \A x \in timers : x[1] # "timeout"

\* C29: a wait is entered only in the step in which an attempt with index
\* below maxAttempts fails with a retryable error while the token is not
\* signaled; a call that has terminated enters none; one call enters at most
\* maxAttempts waits.
C29_WaitOnlyAfterRetryableFailure ==
    [][\A c \in calls :
          LET o == OptionsOf(c) f == frame[c] g == frame'[c] IN
          /\ (g.waits # f.waits \/ (g.pc = "sleeping" /\ f.pc # "sleeping"))
                => /\ Len(g.waits) = Len(f.waits) + 1
                   /\ g.pc = "sleeping"
                   /\ RetryableFailureStep(c)
                   /\ ~TokenSignaled(c)
          /\ f.pc = "done" => g = f
          /\ Len(g.waits) <= o.maxAttempts
          /\ Len(g.waits) <= Cardinality({n \in DOMAIN g.attempts : ~g.attempts[n].ok})]_vars

\* A call with a predicate and a token waits for the second time, after two
\* retryable failures.
C29_Witness ==
    LET f == frame["c1"] o == OptionsOf("c1") IN
    /\ o.maxAttempts = 2
    /\ o.doRetry = Some("is429")
    /\ IsDefined(o.signal)
    /\ f.pc = "sleeping"
    /\ Len(f.waits) = 2
    /\ Len(f.attempts) = 2

----------------------------------------------------------------------------
\* The sleep and its resources.

\* C31 as stated: in the step in which a call is resumed from a wait, which
\* the timer or the abort event has ended, the listener of that sleep is no
\* longer subscribed and no timer of that sleep is pending any more.
C31_SleepCleansUp ==
    [][\A c \in calls :
          LET f == frame[c] IN
          (/\ f.pc \in {"sleeping", "sleepRejected"}
           /\ frame'[c].pc \notin {"sleeping", "sleepRejected"})
          => /\ \A t \in TokenIds : <<c, f.sleeps>> \notin listeners'[t]
             /\ <<"timeout", c, f.sleeps>> \notin timers'
             /\ <<"cleanup", c, f.sleeps>> \notin timers']_vars

\* C32 as stated: under Exponential a delay the caller wrote, 0 included, is
\* the base of the waits: the running delay of a call starts from it, a call
\* with an explicit 0 never waits, and the first wait of any other is the
\* delay that was written.
C32_ExplicitBaseDelayKept ==
    \A c \in calls :
        LET f == frame[c] raw == supplied[handlerOf[c]] IN
        (raw.backOffPolicy = Some(ExponentialBackOffPolicy) /\ IsDefined(raw.backOff))
        => /\ (f.pc # "idle" /\ f.attempts = <<>>) => f.backOff = raw.backOff
           /\ raw.backOff = Some(0) => f.waits = <<>>
           /\ f.waits # <<>> => f.waits[1] = Get(raw.backOff)

\* C36 as stated: under Exponential with a multiplier of at least 1 every
\* wait of a call is at least as long as the wait before it.
C36_WaitsNonDecreasing ==
    \A c \in calls :
        LET f == frame[c] o == OptionsOf(c) IN
        (IsExponential(o) /\ Multiplier(o) >= 1)
        => \A k \in 1..(Len(f.waits) - 1) : f.waits[k] <= f.waits[k + 1]

----------------------------------------------------------------------------
\* The signal and the invocations.

\* C33: every step in which a call that observes a token invokes the
\* operation is taken while the token is not signaled, be it the first
\* attempt of a call started after the signal or a retry of a running call.
C33_NoInvocationAfterSignal ==
    [][\A c \in calls :
          LET o == OptionsOf(c) IN
          (IsDefined(o.signal) /\ frame'[c].invocations # frame[c].invocations)
          => ~aborted[Get(o.signal)] /\ ~aborted'[Get(o.signal)]]_vars

\* The token was signaled while one call waited after its first failure, and
\* the other call of the handler was started after that: the first made no
\* second invocation and the second made none at all.
C33_Witness ==
    /\ aborted["t1"]
    /\ OptionsOf("c1").signal = Some("t1") /\ OptionsOf("c2").signal = Some("t1")
    /\ OptionsOf("c1").maxAttempts >= 1
    /\ Done("c1") /\ Done("c2")
    /\ frame["c1"].outcome.type = "AbortError"
    /\ frame["c1"].invocations = 1
    /\ Len(frame["c1"].waits) = 1
    /\ frame["c2"].outcome.type = "AbortError"
    /\ frame["c2"].invocations = 0

\* C34: the step that signals the token leaves a call whose invocation is in
\* flight as it is; when that invocation then succeeds the call returns its
\* value; and a call comes to fail with AbortError only when it is started,
\* when an attempt before the final one fails with a retryable error, or
\* when it is resumed from a wait that the abort event has ended.
C34_InFlightNotInterrupted ==
    [][\A c \in calls :
          LET f == frame[c] g == frame'[c] IN
          /\ (aborted' # aborted /\ f.pc = "attempting") => g = f
          /\ (/\ TokenSignaled(c)
              /\ f.pc = "attempting"
              /\ Len(g.attempts) = Len(f.attempts) + 1
              /\ Last(g.attempts).ok)
             => g.pc = "done" /\ g.outcome = Returned(Last(g.attempts).value)
          /\ (g.outcome.type = "AbortError" /\ f.outcome.type # "AbortError")
             => \/ f.pc = "idle"
                \/ RetryableFailureStep(c)
                \/ f.pc = "sleepRejected"
          /\ g.pc = "sleepRejected"
             => g = f \/ (f.pc = "sleeping" /\ aborted' # aborted)]_vars

\* The token was signaled while the second invocation of a call was in
\* flight, and the invocation is still in flight.
C34_Witness ==
    LET f == frame["c1"] IN
    /\ TokenSignaled("c1")
    /\ f.pc = "attempting"
    /\ f.invocations = 2
    /\ Len(f.attempts) = 1
    /\ f.waits = <<1000>>

----------------------------------------------------------------------------
\* Termination.

TerminalOutcomes == {"value", "AbortError", "MaxAttemptsError", "thrown"}

\* C35: when every invocation settles and every pending timer fires or is
\* cleared, a call that was made ends: with the value of the operation, with
\* AbortError, with MaxAttemptsError or with the error of the operation.
C35_Terminates ==
    \A c \in CallIds :
        (frame[c].pc # "idle")
        ~> (frame[c].pc = "done" /\ frame[c].outcome.type \in TerminalOutcomes)

\* A call has used its whole budget, with a wait after each failure but the
\* last, and has ended.
C35_Witness ==
    LET f == frame["c1"] o == OptionsOf("c1") IN
    /\ Done("c1")
    /\ o.maxAttempts = 2
    /\ f.invocations = 3
    /\ Len(f.waits) = 2
    /\ f.outcome.type \in TerminalOutcomes
    /\ \A x \in timers : x[1] # "timeout"

====
